---- MODULE Spec2Model ----
(***************************************************************************)
(* patch_mutter_clipboard.py: the strict patcher of two mutter 46.2 source *)
(* files.  A file's content is the sequence of its lines; a regular        *)
(* expression of the script is the sequence of the lines it spells out,    *)
(* each position being the set of lines that match there (the first and    *)
(* the last position of an unanchored pattern match a part of a line).     *)
(* A run of main() is a process; its steps are the script's file-system    *)
(* calls, in the order of the code.                                        *)
(***************************************************************************)
EXTENDS Integers, Sequences, FiniteSets, TLC

\* ------------------------------------------------------------------ bounds
\* Invocations of the script that a behaviour holds.
MaxRuns == 2
\* len(sys.argv) ranges over 1..MaxArgc.
MaxArgc == 3

Procs == 1..MaxRuns

\* ----------------------------------------------------------- configuration
DD  == "data-device"
DDP == "data-device-primary"

\* REQUIRED_FILES, in the insertion order that paths.items() iterates.
Keys == <<DD, DDP>>

REQUIRED_FILES ==
    [k \in {DD, DDP} |->
        IF k = DD THEN "src/wayland/meta-wayland-data-device.c"
                  ELSE "src/wayland/meta-wayland-data-device-primary.c"]

\* path + ".bak"
BackupPath(path) ==
    IF path = "src/wayland/meta-wayland-data-device.c"
    THEN "src/wayland/meta-wayland-data-device.c.bak"
    ELSE "src/wayland/meta-wayland-data-device-primary.c.bak"

TargetPaths == {REQUIRED_FILES[k] : k \in {DD, DDP}}
BackupPaths == {BackupPath(p) : p \in TargetPaths}
Paths       == TargetPaths \cup BackupPaths

\* The lines that hold PATCH_TAG ("VMWARE_CLIPBOARD_PATCH"), once each: the
\* opening and the closing line of a replacement's annotation.
TagOpen  == "  /* === VMWARE_CLIPBOARD_PATCH ==="
TagClose == "   * === /VMWARE_CLIPBOARD_PATCH === */"
PATCH_TAG == {TagOpen, TagClose}

\* ------------------------------------------------------------ line matching
\* The lines of the modelled files that end with `frag` (an unanchored
\* pattern's first line matches the tail of a line).
LinesEndingWith(frag) ==
    IF frag = "    }" THEN {"    }", "        }", "            }"}
    ELSE {frag}

\* The lines of the modelled files that start with `frag` (a pattern's last
\* line matches the head of a line).
LinesStartingWith(frag) ==
    CASE frag = "  /* FIXME: Store serial" ->
            {"  /* FIXME: Store serial and check against incoming serial here. */"}
      [] frag = "  meta_wayland_data_device_primary_set_selection" ->
            {"  meta_wayland_data_device_primary_set_selection (data_device, source, serial);"}
      [] OTHER -> {frag}

\* A literal block of whole lines as a pattern.
Lit(lines) == [i \in DOMAIN lines |-> {lines[i]}]

\* Whether pattern `pat` matches the lines of `text` from line i on.
MatchAt(text, pat, i) ==
    /\ i >= 1
    /\ i + Len(pat) - 1 <= Len(text)
    /\ \A k \in 1..Len(pat) : text[i + k - 1] \in pat[k]

\* The first line of the leftmost match of `pat` in `text`, 0 when none.
FirstMatch(text, pat) ==
    LET hits == {i \in 1..Len(text) : MatchAt(text, pat, i)}
    IN  IF hits = {} THEN 0
        ELSE CHOOSE i \in hits : \A j \in hits : i <= j

\* re.subn(pattern, replacement, text, count=1): the leftmost match is
\* replaced by group 1 (the first `head` lines of the match), the rule's
\* lines, and group 2 (the last `tail` lines of the match).
Subn(rule, text) ==
    LET i == FirstMatch(text, rule.pattern)
    IN  IF i = 0 THEN [text |-> text, count |-> 0]
        ELSE [text  |-> SubSeq(text, 1, i + rule.head - 1)
                        \o rule.repl
                        \o SubSeq(text, i + Len(rule.pattern) - rule.tail, Len(text)),
              count |-> 1]

\* PATCH_TAG in text
HasTag(text) == \E i \in 1..Len(text) : text[i] \in PATCH_TAG

\* text.count(PATCH_TAG)
TagCount(text) == Cardinality({i \in 1..Len(text) : text[i] \in PATCH_TAG})

\* ---------------------------------------------------------------- rules
\* The focus check that rule 1 of either file removes.
FocusCheck ==
    << "  if (wl_resource_get_client (resource) !=",
       "      meta_wayland_seat_get_input_focus_client (seat))",
       "    {",
       "      if (source)",
       "        meta_wayland_data_source_cancel (source);",
       "      return;",
       "    }" >>

\* patch_data_device: pattern1 and replacement1.
Rule1DD ==
    [pattern |-> << LinesEndingWith("    }") >>
                 \o Lit(<< "" >> \o FocusCheck \o << "" >>)
                 \o << LinesStartingWith("  /* FIXME: Store serial") >>,
     head |-> 2,
     tail |-> 1,
     repl |-> << TagOpen,
                 "   * REMOVED: Focus check that blocked clipboard writes from unfocused apps.",
                 "   * X11 never had this restriction. VMware, VirtualBox, clipboard managers",
                 "   * all depend on background clipboard access.",
                 "   * Original code (lines 1064-1070):",
                 "   *   if (wl_resource_get_client (resource) !=",
                 "   *       meta_wayland_seat_get_input_focus_client (seat))",
                 "   *     { if (source) meta_wayland_data_source_cancel (source); return; }",
                 TagClose,
                 "" >>]

\* Rule 2 of patch_data_device with a replacement that carries no tag.
Rule2DDUnmarked ==
    [pattern |-> << LinesEndingWith("  MetaWaylandSeat *seat = compositor->seat;") >>
                 \o Lit(<< "  struct wl_resource *data_device_resource;",
                           "  struct wl_client *focus_client;",
                           "",
                           "  focus_client = meta_wayland_seat_get_input_focus_client (seat);",
                           "  if (!focus_client)",
                           "    return;",
                           "",
                           "  if (selection_type == META_SELECTION_CLIPBOARD)",
                           "    {",
                           "      wl_resource_for_each (data_device_resource,",
                           "                            &data_device->focus_resource_list)",
                           "        {",
                           "          struct wl_resource *offer = NULL;",
                           "",
                           "          if (new_owner)",
                           "            {",
                           "              offer = create_and_send_clipboard_offer (data_device,",
                           "                                                       data_device_resource);",
                           "            }",
                           "",
                           "          wl_data_device_send_selection (data_device_resource, offer);",
                           "        }",
                           "    }" >>)
                 \o << LinesStartingWith("}") >>,
     head |-> 1,
     tail |-> 1,
     repl |-> << "  struct wl_resource *data_device_resource;",
                 "",
                 "  if (selection_type == META_SELECTION_CLIPBOARD)",
                 "    {",
                 "      wl_resource_for_each (data_device_resource,",
                 "                            &data_device->resource_list)",
                 "        {",
                 "          wl_data_device_send_selection (data_device_resource, NULL);",
                 "        }",
                 "    }" >>]

\* patch_data_device: pattern2 and replacement2.
Rule2DD ==
    [pattern |-> << LinesEndingWith("  MetaWaylandSeat *seat = compositor->seat;") >>
                 \o Lit(<< "  struct wl_resource *data_device_resource;",
                           "  struct wl_client *focus_client;",
                           "",
                           "  focus_client = meta_wayland_seat_get_input_focus_client (seat);",
                           "  if (!focus_client)",
                           "    return;",
                           "",
                           "  if (selection_type == META_SELECTION_CLIPBOARD)",
                           "    {",
                           "      wl_resource_for_each (data_device_resource,",
                           "                            &data_device->focus_resource_list)",
                           "        {",
                           "          struct wl_resource *offer = NULL;",
                           "",
                           "          if (new_owner)",
                           "            {",
                           "              offer = create_and_send_clipboard_offer (data_device,",
                           "                                                       data_device_resource);",
                           "            }",
                           "",
                           "          wl_data_device_send_selection (data_device_resource, offer);",
                           "        }",
                           "    }" >>)
                 \o << LinesStartingWith("}") >>,
     head |-> 1,
     tail |-> 1,
     repl |-> << "  struct wl_resource *data_device_resource;",
                 "",
                 TagOpen,
                 "   * REMOVED: Focus check that blocked clipboard notifications to unfocused apps.",
                 "   * CHANGED: Now notify ALL clients, not just the focused one.",
                 "   * Resources are split between resource_list (unfocused) and focus_resource_list (focused),",
                 "   * so we must iterate BOTH lists to notify everyone.",
                 "   * Original code only iterated focus_resource_list.",
                 TagClose,
                 "",
                 "  if (selection_type == META_SELECTION_CLIPBOARD)",
                 "    {",
                 "      /* Notify unfocused clients (resource_list) */",
                 "      wl_resource_for_each (data_device_resource,",
                 "                            &data_device->resource_list)",
                 "        {",
                 "          struct wl_resource *offer = NULL;",
                 "",
                 "          if (new_owner)",
                 "            {",
                 "              offer = create_and_send_clipboard_offer (data_device,",
                 "                                                       data_device_resource);",
                 "            }",
                 "",
                 "          wl_data_device_send_selection (data_device_resource, offer);",
                 "        }",
                 "",
                 "      /* Notify focused client (focus_resource_list) */",
                 "      wl_resource_for_each (data_device_resource,",
                 "                            &data_device->focus_resource_list)",
                 "        {",
                 "          struct wl_resource *offer = NULL;",
                 "",
                 "          if (new_owner)",
                 "            {",
                 "              offer = create_and_send_clipboard_offer (data_device,",
                 "                                                       data_device_resource);",
                 "            }",
                 "",
                 "          wl_data_device_send_selection (data_device_resource, offer);",
                 "        }",
                 "    }" >>]

\* patch_data_device_primary: pattern1 and replacement1.
Rule1DDP ==
    [pattern |-> << LinesEndingWith("  if (source_resource)") >>
                 \o Lit(<< "    source = wl_resource_get_user_data (source_resource);",
                           "" >> \o FocusCheck \o << "" >>)
                 \o << LinesStartingWith("  meta_wayland_data_device_primary_set_selection") >>,
     head |-> 3,
     tail |-> 1,
     repl |-> << TagOpen,
                 "   * REMOVED: Focus check that blocked primary selection writes from unfocused apps.",
                 "   * X11 never had this restriction.",
                 "   * Original code (lines 184-190):",
                 "   *   if (wl_resource_get_client (resource) !=",
                 "   *       meta_wayland_seat_get_input_focus_client (seat))",
                 "   *     { if (source) meta_wayland_data_source_cancel (source); return; }",
                 TagClose,
                 "" >>]

\* patch_data_device_primary: pattern2 and replacement2.
Rule2DDP ==
    [pattern |-> << LinesEndingWith("  MetaWaylandSeat *seat = compositor->seat;") >>
                 \o Lit(<< "  struct wl_resource *data_device_resource;",
                           "  struct wl_client *focus_client;",
                           "",
                           "  focus_client = meta_wayland_seat_get_input_focus_client (seat);",
                           "  if (!focus_client)",
                           "    return;",
                           "",
                           "  if (selection_type == META_SELECTION_PRIMARY)",
                           "    {",
                           "      wl_resource_for_each (data_device_resource, &data_device->focus_resource_list)",
                           "        {",
                           "          struct wl_resource *offer = NULL;",
                           "",
                           "          if (new_owner)",
                           "            {",
                           "              offer = create_and_send_primary_offer (data_device,",
                           "                                                     data_device_resource);",
                           "            }",
                           "",
                           "          zwp_primary_selection_device_v1_send_selection (data_device_resource,",
                           "                                                          offer);",
                           "        }",
                           "    }" >>)
                 \o << LinesStartingWith("}") >>,
     head |-> 1,
     tail |-> 1,
     repl |-> << "  struct wl_resource *data_device_resource;",
                 "",
                 TagOpen,
                 "   * REMOVED: Focus check that blocked primary selection notifications.",
                 "   * CHANGED: Now notify ALL clients, not just the focused one.",
                 TagClose,
                 "",
                 "  if (selection_type == META_SELECTION_PRIMARY)",
                 "    {",
                 "      /* Notify unfocused clients (resource_list) */",
                 "      wl_resource_for_each (data_device_resource, &data_device->resource_list)",
                 "        {",
                 "          struct wl_resource *offer = NULL;",
                 "",
                 "          if (new_owner)",
                 "            {",
                 "              offer = create_and_send_primary_offer (data_device,",
                 "                                                     data_device_resource);",
                 "            }",
                 "",
                 "          zwp_primary_selection_device_v1_send_selection (data_device_resource,",
                 "                                                          offer);",
                 "        }",
                 "",
                 "      /* Notify focused client (focus_resource_list) */",
                 "      wl_resource_for_each (data_device_resource, &data_device->focus_resource_list)",
                 "        {",
                 "          struct wl_resource *offer = NULL;",
                 "",
                 "          if (new_owner)",
                 "            {",
                 "              offer = create_and_send_primary_offer (data_device,",
                 "                                                     data_device_resource);",
                 "            }",
                 "",
                 "          zwp_primary_selection_device_v1_send_selection (data_device_resource,",
                 "                                                          offer);",
                 "        }",
                 "    }" >>]

\* The rules of a file, in the order its patch function applies them.
Rules(key) == IF key = DD THEN << Rule1DD, Rule2DD >> ELSE << Rule1DDP, Rule2DDP >>

\* A transform that stops after rule 1.
ApplyRulesFirstOnly(rules, text) ==
    IF HasTag(text)
    THEN [text |-> text, tried |-> 0, failed |-> 0]
    ELSE LET r1 == Subn(rules[1], text)
         IN  IF r1.count = 0
             THEN [text |-> r1.text, tried |-> 1, failed |-> 1]
             ELSE [text |-> r1.text, tried |-> 1, failed |-> 0]

\* The patch body without the tag short-circuit: the rules are tried on
\* content that holds the tag too.
ApplyRulesUnguarded(rules, text) ==
    LET r1 == Subn(rules[1], text)
    IN  IF r1.count = 0
        THEN [text |-> r1.text, tried |-> 1, failed |-> 1]
        ELSE LET r2 == Subn(rules[2], r1.text)
             IN  IF r2.count = 0
                 THEN [text |-> r2.text, tried |-> 2, failed |-> 2]
                 ELSE [text |-> r2.text, tried |-> 2, failed |-> 0]

\* The body shared by patch_data_device and patch_data_device_primary: the
\* tag short-circuits; otherwise rule 1, then rule 2 on rule 1's output, and
\* die() at the first rule that matches nothing.  `tried` counts the re.subn
\* calls made, `failed` is the rule that died (0: none).
ApplyRules(rules, text) ==
    IF HasTag(text)
    THEN [text |-> text, tried |-> 0, failed |-> 0]
    ELSE LET r1 == Subn(rules[1], text)
         IN  IF r1.count = 0
             THEN [text |-> r1.text, tried |-> 1, failed |-> 1]
             ELSE LET r2 == Subn(rules[2], r1.text)
                  IN  IF r2.count = 0
                      THEN [text |-> r2.text, tried |-> 2, failed |-> 2]
                      ELSE [text |-> r2.text, tried |-> 2, failed |-> 0]

patch_data_device(text) == ApplyRules(Rules(DD), text)

patch_data_device_primary(text) == ApplyRules(Rules(DDP), text)

\* The patch function main() calls for a key.
Patch(key, text) ==
    IF key = DD THEN patch_data_device(text) ELSE patch_data_device_primary(text)

\* ------------------------------------------------------------ sentinels
\* A sentinel found on one line: the lines of the modelled files in which
\* re.search finds it.
OnLine(lines) == [kind |-> "line", head |-> lines, name |-> {}]

\* A sentinel "^<type>\s+<function>\s*\(": the line that is <type>, then
\* (past blank lines, which \s+ spans) the line that starts with "<function> (".
Signature(type, function) == [kind |-> "signature", head |-> {type}, name |-> {function}]

\* r"meta_wayland_seat_get_input_focus_client\s*\(\s*seat\s*\)"
FocusClientLines ==
    { "      meta_wayland_seat_get_input_focus_client (seat))",
      "  focus_client = meta_wayland_seat_get_input_focus_client (seat);",
      "   *       meta_wayland_seat_get_input_focus_client (seat))" }

\* r"&data_device->focus_resource_list"
FocusListLines ==
    { "                            &data_device->focus_resource_list)",
      "      wl_resource_for_each (data_device_resource, &data_device->focus_resource_list)",
      "  move_resources (&data_device->resource_list, &data_device->focus_resource_list);" }

SENTINELS ==
    [k \in {DD, DDP} |->
        IF k = DD
        THEN << Signature("static void", "data_device_set_selection (struct wl_client *client,"),
                Signature("static void", "owner_changed_cb (MetaSelection *selection,"),
                Signature("void", "meta_wayland_data_device_sync_focus (MetaWaylandDataDevice *data_device)"),
                OnLine(FocusClientLines),
                OnLine(FocusListLines) >>
        ELSE << Signature("static void", "primary_device_set_selection (struct wl_client *client,"),
                Signature("static void", "owner_changed_cb (MetaSelection *selection,"),
                Signature("void", "meta_wayland_data_device_primary_sync_focus (MetaWaylandDataDevicePrimary *data_device)"),
                OnLine(FocusClientLines),
                OnLine(FocusListLines) >>]

\* re.search(pat, content, flags=re.MULTILINE)
Search(pat, content) ==
    IF pat.kind = "line"
    THEN \E i \in 1..Len(content) : content[i] \in pat.head
    ELSE \E i \in 1..Len(content) : \E j \in (i + 1)..Len(content) :
            /\ content[i] \in pat.head
            /\ content[j] \in pat.name
            /\ \A m \in (i + 1)..(j - 1) : content[m] = ""

\* check_sentinels: 0 when every pattern is found; otherwise the position of
\* the first pattern that is not, at which the function calls die().
check_sentinels(content, patterns) ==
    LET missing == {n \in 1..Len(patterns) : ~Search(patterns[n], content)}
    IN  IF missing = {} THEN 0
        ELSE CHOOSE n \in missing : \A m \in missing : n <= m

\* ----------------------------------------------------------------- inputs
\* meta-wayland-data-device.c in the layout the patterns are written for:
\* the three functions the sentinels name, around the two blocks the rules
\* match.
PristineDD ==
    << "static void",
       "data_device_set_selection (struct wl_client *client,",
       "{",
       "        }",
       "    }",
       "" >>
    \o FocusCheck
    \o << "",
          "  /* FIXME: Store serial and check against incoming serial here. */",
          "}",
          "",
          "static void",
          "owner_changed_cb (MetaSelection *selection,",
          "{",
          "  MetaWaylandSeat *seat = compositor->seat;",
          "  struct wl_resource *data_device_resource;",
          "  struct wl_client *focus_client;",
          "",
          "  focus_client = meta_wayland_seat_get_input_focus_client (seat);",
          "  if (!focus_client)",
          "    return;",
          "",
          "  if (selection_type == META_SELECTION_CLIPBOARD)",
          "    {",
          "      wl_resource_for_each (data_device_resource,",
          "                            &data_device->focus_resource_list)",
          "        {",
          "          struct wl_resource *offer = NULL;",
          "",
          "          if (new_owner)",
          "            {",
          "              offer = create_and_send_clipboard_offer (data_device,",
          "                                                       data_device_resource);",
          "            }",
          "",
          "          wl_data_device_send_selection (data_device_resource, offer);",
          "        }",
          "    }",
          "}",
          "",
          "void",
          "meta_wayland_data_device_sync_focus (MetaWaylandDataDevice *data_device)",
          "{",
          "  move_resources (&data_device->resource_list, &data_device->focus_resource_list);",
          "}" >>

\* meta-wayland-data-device-primary.c, likewise.
PristineDDP ==
    << "static void",
       "primary_device_set_selection (struct wl_client *client,",
       "{",
       "  if (source_resource)",
       "    source = wl_resource_get_user_data (source_resource);",
       "" >>
    \o FocusCheck
    \o << "",
          "  meta_wayland_data_device_primary_set_selection (data_device, source, serial);",
          "}",
          "",
          "static void",
          "owner_changed_cb (MetaSelection *selection,",
          "{",
          "  MetaWaylandSeat *seat = compositor->seat;",
          "  struct wl_resource *data_device_resource;",
          "  struct wl_client *focus_client;",
          "",
          "  focus_client = meta_wayland_seat_get_input_focus_client (seat);",
          "  if (!focus_client)",
          "    return;",
          "",
          "  if (selection_type == META_SELECTION_PRIMARY)",
          "    {",
          "      wl_resource_for_each (data_device_resource, &data_device->focus_resource_list)",
          "        {",
          "          struct wl_resource *offer = NULL;",
          "",
          "          if (new_owner)",
          "            {",
          "              offer = create_and_send_primary_offer (data_device,",
          "                                                     data_device_resource);",
          "            }",
          "",
          "          zwp_primary_selection_device_v1_send_selection (data_device_resource,",
          "                                                          offer);",
          "        }",
          "    }",
          "}",
          "",
          "void",
          "meta_wayland_data_device_primary_sync_focus (MetaWaylandDataDevicePrimary *data_device)",
          "{",
          "  move_resources (&data_device->resource_list, &data_device->focus_resource_list);",
          "}" >>

Pristine(key) == IF key = DD THEN PristineDD ELSE PristineDDP

\* The file as a successful run leaves it.
Patched(key) == Patch(key, Pristine(key)).text

\* The file with rule 1 applied and rule 2 not: a hand-edited tree.
HalfPatched(key) == Subn(Rules(key)[1], Pristine(key)).text

\* Version drift: `text` without its line i.
RemoveLine(text, i) == SubSeq(text, 1, i - 1) \o SubSeq(text, i + 1, Len(text))

Drifted(text) == {RemoveLine(text, i) : i \in 1..Len(text)}

\* The lines of Pristine(key) that a rule's pattern matches, as line numbers.
BlockLines(key) ==
    UNION { LET i == FirstMatch(Pristine(key), Rules(key)[r].pattern)
            IN  i..(i + Len(Rules(key)[r].pattern) - 1) : r \in 1..2 }

\* A backup kept from an earlier run.
OldBackup == << "/* kept from an earlier run */" >>

\* ------------------------------------------------------------------ state
VARIABLES
    disk,       \* the tree: path -> [exists, data]
    pc,         \* per run: "idle", "main", "wb" (in write_with_backup), "done", "died", "crashed"
    step,       \* per run: the position in MainFlow
    wb,         \* per run: the position in WbFlow while pc = "wb"
    argc,       \* per run: len(sys.argv)
    existing,   \* per run: existing_baks, the backup paths found to exist
    texts,      \* per run: texts[key], <<>> until read
    patched,    \* per run: patched[key], <<>> until transformed
    exitCode,   \* per run: the exit status, -1 while the run has none
    error,      \* per run: the fatal error printed, [what, key]
    startDisk,  \* per run: the tree as it was when the run started
    created     \* per run: how often it opened a backup path to create the backup

vars == << disk, pc, step, wb, argc, existing, texts, patched, exitCode, error, startDisk,
          created >>

NoFile  == [exists |-> FALSE, data |-> << >>]
File(d) == [exists |-> TRUE, data |-> d]

NoError == [what |-> "", key |-> ""]

\* main() without the check for existing backups.
MainFlowUnchecked ==
    << << "files", 1 >>, << "files", 2 >>,
       << "read", 1 >>,  << "read", 2 >>,
       << "patch", 1 >>, << "patch", 2 >>,
       << "write", 1 >>, << "write", 2 >>,
       << "finish", 0 >> >>

\* main() with one loop that reads, validates, transforms and writes a file
\* before it turns to the next.
MainFlowPerFile ==
    << << "files", 1 >>, << "files", 2 >>,
       << "baks", 1 >>,  << "baks", 2 >>,
       << "read", 1 >>,  << "patch", 1 >>, << "write", 1 >>,
       << "read", 2 >>,  << "patch", 2 >>, << "write", 2 >>,
       << "finish", 0 >> >>

\* The statements of main() after the usage check, in program order: the
\* loop over the required files, the comprehension over the backup paths,
\* the read-and-validate loop, the two patch calls, the write loop, and the
\* closing message.  Each is <<statement, index into Keys>>.
MainFlow ==
    << << "files", 1 >>, << "files", 2 >>,
       << "baks", 1 >>,  << "baks", 2 >>,
       << "read", 1 >>,  << "read", 2 >>,
       << "patch", 1 >>, << "patch", 2 >>,
       << "write", 1 >>, << "write", 2 >>,
       << "finish", 0 >> >>

\* write_with_backup writing the new content before it takes the backup.
WbFlowWriteFirst == << "exists", "truncate", "write", "copy_create", "copy_data" >>

\* The statements of write_with_backup, in program order: os.path.exists,
\* shutil.copy2 (the backup is created, then filled), open(path, "w") (which
\* truncates), f.write.
WbFlow == << "exists", "copy_create", "copy_data", "truncate", "write" >>

Stmt(p)    == MainFlow[step[p]][1]
KeyOf(p)   == Keys[MainFlow[step[p]][2]]
PathOf(p)  == REQUIRED_FILES[KeyOf(p)]
WbStmt(p)  == WbFlow[wb[p]]

AtMain(p, stmt) == pc[p] = "main" /\ Stmt(p) = stmt
AtWb(p, stmt)   == pc[p] = "wb" /\ WbStmt(p) = stmt

\* die() ending the run with sys.exit() and no status.
DieStatusZero(p, what, key) ==
    /\ pc' = [pc EXCEPT ![p] = "died"]
    /\ exitCode' = [exitCode EXCEPT ![p] = 0]
    /\ error' = [error EXCEPT ![p] = [what |-> what, key |-> key]]

\* die(msg, filekey) and the usage branch of main(): the message goes to the
\* terminal and sys.exit(1) ends the run.
Die(p, what, key) ==
    /\ pc' = [pc EXCEPT ![p] = "died"]
    /\ exitCode' = [exitCode EXCEPT ![p] = 1]
    /\ error' = [error EXCEPT ![p] = [what |-> what, key |-> key]]

\* The run goes on to the next statement of main().
Advance(p) ==
    /\ pc' = [pc EXCEPT ![p] = "main"]
    /\ step' = [step EXCEPT ![p] = step[p] + 1]
    /\ wb' = [wb EXCEPT ![p] = 0]

\* The run goes on to the next statement of write_with_backup, or returns.
WbAdvance(p) ==
    IF wb[p] < Len(WbFlow)
    THEN /\ wb' = [wb EXCEPT ![p] = wb[p] + 1]
         /\ UNCHANGED << pc, step >>
    ELSE Advance(p)

\* --------------------------------------------------------------- actions
\* The comprehension of main() finding no backup, whatever the tree holds.
CheckBackupSkipped(p) ==
    /\ AtMain(p, "baks")
    /\ Advance(p)
    /\ UNCHANGED << disk, argc, existing, texts, patched, exitCode, error, startDisk, created >>

\* The read loop of main() without its call of check_sentinels.
ReadUnvalidated(p) ==
    /\ AtMain(p, "read")
    /\ disk[PathOf(p)].exists
    /\ texts' = [texts EXCEPT ![p][KeyOf(p)] = disk[PathOf(p)].data]
    /\ Advance(p)
    /\ UNCHANGED << disk, argc, existing, patched, exitCode, error, startDisk, created >>

\* A copy that creates the backup and copies no data into it.
WbCopyNothing(p) ==
    /\ AtWb(p, "copy_data")
    /\ WbAdvance(p)
    /\ UNCHANGED << disk, argc, existing, texts, patched, exitCode, error, startDisk, created >>

\* The backup filled with the new content in place of the file's.
WbCopyNew(p) ==
    /\ AtWb(p, "copy_data")
    /\ disk' = [disk EXCEPT ![BackupPath(PathOf(p))] = File(patched[p][KeyOf(p)])]
    /\ WbAdvance(p)
    /\ UNCHANGED << argc, existing, texts, patched, exitCode, error, startDisk, created >>

\* main(), lines 470-486: the run starts with len(sys.argv) = n; any count
\* but 2 prints the usage and exits 1.  detect_version only prints.
Start(p) ==
    /\ pc[p] = "idle"
    /\ \E n \in 1..MaxArgc :
        /\ argc' = [argc EXCEPT ![p] = n]
        /\ startDisk' = [startDisk EXCEPT ![p] = disk]
        /\ IF n # 2
           THEN /\ Die(p, "usage", "")
                /\ UNCHANGED step
           ELSE /\ pc' = [pc EXCEPT ![p] = "main"]
                /\ step' = [step EXCEPT ![p] = 1]
                /\ UNCHANGED << exitCode, error >>
    /\ UNCHANGED << disk, wb, existing, texts, patched, created >>

\* main(), lines 490-495: os.path.isfile of one required file.
VerifyFile(p) ==
    /\ AtMain(p, "files")
    /\ IF ~disk[PathOf(p)].exists
       THEN /\ Die(p, "missing", KeyOf(p))
            /\ UNCHANGED << step, wb >>
       ELSE /\ Advance(p)
            /\ UNCHANGED << exitCode, error >>
    /\ UNCHANGED << disk, argc, existing, texts, patched, startDisk, created >>

\* main(), lines 498-503: os.path.exists of one backup path; after the last
\* one, die() when any was found.
CheckBackup(p) ==
    /\ AtMain(p, "baks")
    /\ LET bak   == BackupPath(PathOf(p))
           found == IF disk[bak].exists THEN existing[p] \cup {bak} ELSE existing[p]
           last  == MainFlow[step[p] + 1][1] # "baks"
       IN  /\ existing' = [existing EXCEPT ![p] = found]
           /\ IF last /\ found # {}
              THEN /\ Die(p, "backups exist", "")
                   /\ UNCHANGED << step, wb >>
              ELSE /\ Advance(p)
                   /\ UNCHANGED << exitCode, error >>
    /\ UNCHANGED << disk, argc, texts, patched, startDisk, created >>

\* main(), lines 507-510: read_file and check_sentinels of one file.
ReadValidate(p) ==
    /\ AtMain(p, "read")
    /\ disk[PathOf(p)].exists
    /\ LET content == disk[PathOf(p)].data
       IN  IF check_sentinels(content, SENTINELS[KeyOf(p)]) # 0
           THEN /\ Die(p, "sentinel", KeyOf(p))
                /\ UNCHANGED << step, wb, texts >>
           ELSE /\ texts' = [texts EXCEPT ![p][KeyOf(p)] = content]
                /\ Advance(p)
                /\ UNCHANGED << exitCode, error >>
    /\ UNCHANGED << disk, argc, existing, patched, startDisk, created >>

\* main(), lines 516-517: one patch call; the rule that matches nothing dies.
ApplyPatch(p) ==
    /\ AtMain(p, "patch")
    /\ LET r == Patch(KeyOf(p), texts[p][KeyOf(p)])
       IN  IF r.failed # 0
           THEN /\ Die(p, IF r.failed = 1 THEN "PATCH 1 failed" ELSE "PATCH 2 failed", KeyOf(p))
                /\ UNCHANGED << step, wb, patched >>
           ELSE /\ patched' = [patched EXCEPT ![p][KeyOf(p)] = r.text]
                /\ Advance(p)
                /\ UNCHANGED << exitCode, error >>
    /\ UNCHANGED << disk, argc, existing, texts, startDisk, created >>

\* A write loop without the comparison of line 521: every file goes to
\* write_with_backup.
WriteAlways(p) ==
    /\ AtMain(p, "write")
    /\ pc' = [pc EXCEPT ![p] = "wb"]
    /\ wb' = [wb EXCEPT ![p] = 1]
    /\ UNCHANGED step
    /\ UNCHANGED << disk, argc, existing, texts, patched, exitCode, error, startDisk, created >>

\* main(), lines 520-527: a changed file goes to write_with_backup, an
\* unchanged one is skipped.
WriteOrSkip(p) ==
    /\ AtMain(p, "write")
    /\ IF patched[p][KeyOf(p)] # texts[p][KeyOf(p)]
       THEN /\ pc' = [pc EXCEPT ![p] = "wb"]
            /\ wb' = [wb EXCEPT ![p] = 1]
            /\ UNCHANGED step
       ELSE Advance(p)
    /\ UNCHANGED << disk, argc, existing, texts, patched, exitCode, error, startDisk, created >>

\* write_with_backup, lines 136-140: the backup must not exist.
WbExists(p) ==
    /\ AtWb(p, "exists")
    /\ IF disk[BackupPath(PathOf(p))].exists
       THEN /\ Die(p, "backup exists", "")
            /\ UNCHANGED << step, wb >>
       ELSE /\ WbAdvance(p)
            /\ UNCHANGED << exitCode, error >>
    /\ UNCHANGED << disk, argc, existing, texts, patched, startDisk, created >>

\* write_with_backup, line 141: shutil.copy2 opens the backup for writing,
\* which creates it empty.
WbCopyCreate(p) ==
    /\ AtWb(p, "copy_create")
    /\ disk' = [disk EXCEPT ![BackupPath(PathOf(p))] = File(<< >>)]
    /\ created' = [created EXCEPT ![p][BackupPath(PathOf(p))] = @ + 1]
    /\ WbAdvance(p)
    /\ UNCHANGED << argc, existing, texts, patched, exitCode, error, startDisk >>

\* write_with_backup, line 141: shutil.copy2 copies what the path holds.
WbCopyData(p) ==
    /\ AtWb(p, "copy_data")
    /\ disk' = [disk EXCEPT ![BackupPath(PathOf(p))] = File(disk[PathOf(p)].data)]
    /\ WbAdvance(p)
    /\ UNCHANGED << argc, existing, texts, patched, exitCode, error, startDisk, created >>

\* write_with_backup, line 142: open(path, "w") truncates the file.
WbTruncate(p) ==
    /\ AtWb(p, "truncate")
    /\ disk' = [disk EXCEPT ![PathOf(p)] = File(<< >>)]
    /\ WbAdvance(p)
    /\ UNCHANGED << argc, existing, texts, patched, exitCode, error, startDisk, created >>

\* write_with_backup, line 143: f.write(new_content), and the file is closed.
WbWrite(p) ==
    /\ AtWb(p, "write")
    /\ disk' = [disk EXCEPT ![PathOf(p)] = File(patched[p][KeyOf(p)])]
    /\ WbAdvance(p)
    /\ UNCHANGED << argc, existing, texts, patched, exitCode, error, startDisk, created >>

\* main(), lines 529-564: the closing message; the script ends with status 0.
Finish(p) ==
    /\ AtMain(p, "finish")
    /\ pc' = [pc EXCEPT ![p] = "done"]
    /\ exitCode' = [exitCode EXCEPT ![p] = 0]
    /\ UNCHANGED << disk, step, wb, argc, existing, texts, patched, error, startDisk, created >>

\* The process is killed, or the machine stops, while the write loop runs:
\* nothing more happens in this run.
Crash(p) ==
    /\ \/ AtMain(p, "write")
       \/ pc[p] = "wb"
    /\ pc' = [pc EXCEPT ![p] = "crashed"]
    /\ UNCHANGED << disk, step, wb, argc, existing, texts, patched, exitCode, error, startDisk, created >>

Step(p) ==
    \/ VerifyFile(p)
    \/ CheckBackup(p)
    \/ ReadValidate(p)
    \/ ApplyPatch(p)
    \/ WriteOrSkip(p)
    \/ WbExists(p)
    \/ WbCopyCreate(p)
    \/ WbCopyData(p)
    \/ WbTruncate(p)
    \/ WbWrite(p)
    \/ Finish(p)
    \/ Crash(p)

Ended(p) == pc[p] \in {"done", "died", "crashed"}

\* ------------------------------------------------------------------ trees
\* What a target path may hold when a behaviour starts: the pristine file,
\* the fully or half patched one, any of them with one line removed, or
\* nothing.
Contents(key) ==
    {Pristine(key), Patched(key), HalfPatched(key)}
    \cup Drifted(Pristine(key)) \cup Drifted(Patched(key))

\* The files a run can find at a target path without drift.
Plain(key) == {NoFile, File(Pristine(key)), File(Patched(key))}

\* Two drifted contents per file, for the trees in which both files drifted:
\* a signature line gone, and a line of rule 1's block gone.
Sample(key) == {RemoveLine(Pristine(key), 2), RemoveLine(Pristine(key), 8)}

\* The target files of a tree: any content in one file beside a plain other
\* file, and the sampled drift in both.
Targets ==
    {<< File(c), f >> : c \in Contents(DD), f \in Plain(DDP)}
    \cup {<< f, File(c) >> : f \in Plain(DD), c \in Contents(DDP)}
    \cup {<< NoFile, f >> : f \in Plain(DDP)}
    \cup {<< File(c), File(d) >> : c \in Sample(DD), d \in Sample(DDP)}

\* The target files of the trees on which runs follow one another.
PlainTargets ==
    {<< f, g >> : f \in Plain(DD), g \in Plain(DDP)}
    \cup {<< File(HalfPatched(DD)), File(Pristine(DDP)) >>,
          << File(RemoveLine(Pristine(DD), 2)), File(Pristine(DDP)) >>,
          << File(Pristine(DD)), File(RemoveLine(Pristine(DDP), 8)) >>}

Backups == {NoFile, File(OldBackup)}

Tree(t, b1, b2) ==
    [path \in Paths |->
        CASE path = REQUIRED_FILES[DD]              -> t[1]
          [] path = REQUIRED_FILES[DDP]             -> t[2]
          [] path = BackupPath(REQUIRED_FILES[DD])  -> b1
          [] OTHER                                  -> b2]

InitOn(targets) ==
    /\ \E t \in targets : \E b1 \in Backups : \E b2 \in Backups : disk = Tree(t, b1, b2)
    /\ pc = [p \in Procs |-> "idle"]
    /\ step = [p \in Procs |-> 0]
    /\ wb = [p \in Procs |-> 0]
    /\ argc = [p \in Procs |-> 0]
    /\ existing = [p \in Procs |-> {}]
    /\ texts = [p \in Procs |-> [k \in {DD, DDP} |-> << >>]]
    /\ patched = [p \in Procs |-> [k \in {DD, DDP} |-> << >>]]
    /\ exitCode = [p \in Procs |-> -1]
    /\ error = [p \in Procs |-> NoError]
    /\ startDisk = [p \in Procs |-> [path \in Paths |-> NoFile]]
    /\ created = [p \in Procs |-> [path \in BackupPaths |-> 0]]

TargetsExist(d) == \A k \in {DD, DDP} : d[REQUIRED_FILES[k]].exists
NoBackups(d)    == \A k \in {DD, DDP} : ~d[BackupPath(REQUIRED_FILES[k])].exists

\* ---------------------------------------------------------- specifications
\* One run of the script on any tree.
Init == InitOn(Targets)

Next == Start(1) \/ Step(1)

Spec == Init /\ [][Next]_vars

\* Runs one after the other on the same tree: a run starts when the runs
\* before it have ended.
InitRuns == InitOn(PlainTargets)

NextRuns ==
    \E p \in Procs :
        \/ (\A q \in 1..(p - 1) : Ended(q)) /\ Start(p)
        \/ Step(p)

SpecRuns == InitRuns /\ [][NextRuns]_vars

\* Two runs at a time on the pristine tree without backups: a run starts
\* while the run before it is still going on, once the runs before that one
\* have ended; the runs that go on take their steps in any order.
InitConc == InitOn({<< File(PristineDD), File(PristineDDP) >>}) /\ NoBackups(disk)

NextConc ==
    \E p \in Procs :
        \/ (\A q \in 1..(p - 2) : Ended(q)) /\ Start(p)
        \/ Step(p)

SpecConc == InitConc /\ [][NextConc]_vars

\* main(), lines 499-503: the abort on existing backups asks the user to move
\* them away; between two runs the user does so.
MoveBackups ==
    /\ \A p \in Procs : pc[p] = "idle" \/ Ended(p)
    /\ ~NoBackups(disk)
    /\ disk' = [path \in Paths |-> IF path \in BackupPaths THEN NoFile ELSE disk[path]]
    /\ UNCHANGED << pc, step, wb, argc, existing, texts, patched, exitCode, error, startDisk,
                    created >>

\* Runs one after the other from a tree with pristine target files, the
\* backups being moved away between runs or left.
InitMoved == InitOn({<< File(PristineDD), File(PristineDDP) >>})

NextMoved ==
    \/ NextRuns
    \/ MoveBackups

SpecMoved == InitMoved /\ [][NextMoved]_vars

\* ----------------------------------------------------------------- claims
Started(p) == pc[p] # "idle"
Exited(p)  == pc[p] \in {"done", "died"}

PathDD  == REQUIRED_FILES[DD]
PathDDP == REQUIRED_FILES[DDP]


\* A sentinel of some target file is absent from that file's content.
SentinelAbsent(d) ==
    \E k \in {DD, DDP} :
        /\ d[REQUIRED_FILES[k]].exists
        /\ check_sentinels(d[REQUIRED_FILES[k]].data, SENTINELS[k]) # 0

\* A rule of some target file is tried and matches nothing.
RuleFails(d) ==
    \E k \in {DD, DDP} :
        /\ d[REQUIRED_FILES[k]].exists
        /\ Patch(k, d[REQUIRED_FILES[k]].data).failed # 0

\* C1 (atomic validation-before-mutation): a run on a tree with both target
\* files and no backup, in which a sentinel of either file is absent, never
\* changes the tree (no target rewritten, no .bak created), never enters the
\* write loop, and ends with exit status 1, reporting the sentinel when the
\* argument count was right.
C1_AtomicValidation ==
    \A p \in Procs :
        (Started(p) /\ TargetsExist(startDisk[p]) /\ NoBackups(startDisk[p])
            /\ SentinelAbsent(startDisk[p]))
        => /\ disk = startDisk[p]
           /\ pc[p] \notin {"wb", "done", "crashed"}
           /\ Exited(p) => exitCode[p] = 1
           /\ (Exited(p) /\ argc[p] = 2) => error[p].what = "sentinel"

\* The second file fails validation, the first one passes: nothing is written.
C1_Witness ==
    /\ pc[1] = "died"
    /\ error[1] = [what |-> "sentinel", key |-> DDP]
    /\ NoBackups(startDisk[1])
    /\ check_sentinels(startDisk[1][PathDD].data, SENTINELS[DD]) = 0
    /\ disk = startDisk[1]

\* C2 (backup non-clobber): a run that starts on a tree in which a .bak exists
\* for at least one target file changes nothing on disk, never enters the
\* write loop, and ends with exit status 1, whatever the target files hold.
C2_BackupNonClobber ==
    \A p \in Procs :
        (Started(p) /\ ~NoBackups(startDisk[p]))
        => /\ disk = startDisk[p]
           /\ pc[p] \notin {"wb", "done", "crashed"}
           /\ Exited(p) => exitCode[p] = 1

\* One backup exists, beside two pristine files whose sentinels pass.
C2_Witness ==
    /\ pc[1] = "died"
    /\ error[1].what = "backups exist"
    /\ ~startDisk[1][BackupPath(PathDD)].exists
    /\ startDisk[1][BackupPath(PathDDP)] = File(OldBackup)
    /\ startDisk[1][PathDD] = File(PristineDD)
    /\ startDisk[1][PathDDP] = File(PristineDDP)

\* C3 (backup fidelity): when a run has ended with status 0, every .bak that
\* it created holds the content its target file had when the run started,
\* and that target file holds the transformed content.
C3_BackupFidelity ==
    \A p \in Procs : \A k \in {DD, DDP} :
        LET path == REQUIRED_FILES[k]
            bak  == BackupPath(path)
        IN  (pc[p] = "done" /\ disk[bak].exists /\ ~startDisk[p][bak].exists)
            => /\ disk[bak] = File(startDisk[p][path].data)
               /\ disk[path] = File(Patch(k, startDisk[p][path].data).text)
               /\ disk[path] # startDisk[p][path]

\* A successful run on the pristine tree: both backups were created.
C3_Witness ==
    /\ pc[1] = "done"
    /\ startDisk[1][PathDD] = File(PristineDD)
    /\ startDisk[1][PathDDP] = File(PristineDDP)
    /\ disk[BackupPath(PathDD)].exists
    /\ disk[BackupPath(PathDDP)].exists

\* C4 (idempotence of the transform): on content that holds the Patch Marker
\* the patch function tries no rule, cannot fail and returns the content as
\* it is; hence a transformed content is a fixed point of the transform.
C4_Idempotence ==
    \A p \in Procs : \A k \in {DD, DDP} :
        /\ (error[p].what \in {"PATCH 1 failed", "PATCH 2 failed"} /\ error[p].key = k)
            => ~HasTag(texts[p][k])
        /\ (patched[p][k] # << >> /\ HasTag(texts[p][k]))
            => patched[p][k] = texts[p][k]
        /\ patched[p][k] # << >>
            => Patch(k, patched[p][k]) = [text |-> patched[p][k], tried |-> 0, failed |-> 0]

\* The transform was called on an already patched file and on a pristine one.
C4_Witness ==
    /\ HasTag(texts[1][DD])
    /\ patched[1][DD] = texts[1][DD]
    /\ texts[1][DDP] = PristineDDP
    /\ patched[1][DDP] # << >>
    /\ patched[1][DDP] # texts[1][DDP]

\* The blocks that the rules of a file replace are gone from `text`: no
\* pattern matches, and the focus check stands nowhere.
BlocksGone(k, text) ==
    /\ \A r \in 1..Len(Rules(k)) : FirstMatch(text, Rules(k)[r].pattern) = 0
    /\ FirstMatch(text, Lit(FocusCheck)) = 0

\* C5 as amended (rule completeness): the transform of a content without the
\* Patch Marker, when it succeeds, yields a content in which the marker
\* occurs twice per rule (the opening and the closing line of each
\* annotation), four times per file, and in which no block matched by a rule
\* is left.
C5_RuleCompleteness ==
    \A p \in Procs : \A k \in {DD, DDP} :
        (patched[p][k] # << >> /\ ~HasTag(texts[p][k]))
        => /\ TagCount(patched[p][k]) = 2 * Len(Rules(k))
           /\ BlocksGone(k, patched[p][k])

\* C5 as stated: the marker occurs once per rule, twice per file.
C5_Original ==
    \A p \in Procs : \A k \in {DD, DDP} :
        (patched[p][k] # << >> /\ ~HasTag(texts[p][k]))
        => /\ TagCount(patched[p][k]) = Len(Rules(k))
           /\ BlocksGone(k, patched[p][k])

\* Both pristine files were transformed.
C5_Witness ==
    /\ texts[1][DD] = PristineDD
    /\ texts[1][DDP] = PristineDDP
    /\ patched[1][DD] # << >>
    /\ patched[1][DDP] # << >>

\* The tree holds one pristine file and one pristine file short of a line
\* that a rule's pattern matches.
BlockLineRemoved(d) ==
    \E k \in {DD, DDP} :
        /\ \E i \in BlockLines(k) : d[REQUIRED_FILES[k]] = File(RemoveLine(Pristine(k), i))
        /\ \A j \in {DD, DDP} \ {k} : d[REQUIRED_FILES[j]] = File(Pristine(j))

\* C6 (rule necessity): a run on a tree without backups, in which one line of
\* a block that a rule matches was removed from a pristine file, writes
\* nothing, creates no backup and ends with exit status 1, the rule
\* reporting that it matched nothing.
C6_RuleNecessity ==
    \A p \in Procs :
        (Started(p) /\ argc[p] = 2 /\ NoBackups(startDisk[p])
            /\ BlockLineRemoved(startDisk[p]))
        => /\ disk = startDisk[p]
           /\ pc[p] \notin {"wb", "done"}
           /\ Exited(p) => /\ exitCode[p] = 1
                           /\ error[p].what \in {"PATCH 1 failed", "PATCH 2 failed"}

\* The run is bound to exit 1: wrong argument count, a missing target file,
\* an existing backup, an absent sentinel, or a rule that matches nothing.
MustFail(p) ==
    \/ argc[p] # 2
    \/ ~TargetsExist(startDisk[p])
    \/ ~NoBackups(startDisk[p])
    \/ SentinelAbsent(startDisk[p])
    \/ RuleFails(startDisk[p])

\* C7 (exit-code contract): a run that ends has status 0 or 1; it has status 1
\* exactly when the argument count is wrong, a target file is missing, a
\* backup exists, a sentinel is absent or a rule matches nothing; with
\* status 0 every file whose content the transform changes was backed up and
\* written, the others are as they were, and when both files held the Patch
\* Marker the tree is as it was (nothing written, no backup created).
C7_ExitCodes ==
    \A p \in Procs :
        /\ Exited(p) => /\ exitCode[p] \in {0, 1}
                        /\ (exitCode[p] = 1) <=> MustFail(p)
        /\ (Exited(p) /\ exitCode[p] = 0)
            => /\ \A k \in {DD, DDP} :
                    LET path == REQUIRED_FILES[k]
                        was  == startDisk[p][path].data
                        new  == Patch(k, was).text
                    IN  /\ disk[path] = File(new)
                        /\ disk[BackupPath(path)] = IF new # was THEN File(was) ELSE NoFile
               /\ (\A k \in {DD, DDP} : HasTag(startDisk[p][REQUIRED_FILES[k]].data))
                    => disk = startDisk[p]

\* Both files were already patched and no backup existed: status 0, the tree
\* untouched.
C7_Witness ==
    /\ pc[1] = "done"
    /\ exitCode[1] = 0
    /\ HasTag(startDisk[1][PathDD].data)
    /\ HasTag(startDisk[1][PathDDP].data)
    /\ NoBackups(disk)

PristineTree == Tree(<< File(PristineDD), File(PristineDDP) >>, NoFile, NoFile)

\* The tree as a successful run on the pristine tree leaves it.
PatchedTree ==
    Tree(<< File(Patched(DD)), File(Patched(DDP)) >>, File(PristineDD), File(PristineDDP))

\* C8 (run twice): the first complete run on the pristine tree without
\* backups ends with status 0 and leaves both files patched and both .bak
\* files holding the originals; every later run on that tree finds the
\* backups, changes nothing and ends with status 1, reporting them when its
\* argument count was right.
C8_RunTwice ==
    \A p \in Procs :
        (Exited(p) /\ argc[p] = 2 /\ startDisk[p] = PristineTree)
        => /\ pc[p] = "done"
           /\ exitCode[p] = 0
           /\ disk = PatchedTree
           /\ \A q \in Procs :
                (q > p /\ Started(q))
                => /\ startDisk[q] = PatchedTree
                   /\ pc[q] \notin {"wb", "done", "crashed"}
                   /\ Exited(q) => /\ exitCode[q] = 1
                                   /\ argc[q] = 2 => error[q].what = "backups exist"

\* The second run has aborted on the backups of the first.
C8_Witness ==
    /\ pc[1] = "done"
    /\ startDisk[1] = PristineTree
    /\ pc[2] = "died"
    /\ argc[2] = 2
    /\ error[2].what = "backups exist"
    /\ disk = PatchedTree

\* C9 (backup before write): in every state of a run, a crash in
\* write_with_backup included, what a target file held when the run started
\* stands at the file's path or at its backup path; so a file is changed
\* only once its backup is complete.
C9_BackupBeforeWrite ==
    \A p \in Procs : \A k \in {DD, DDP} :
        LET path == REQUIRED_FILES[k]
        IN  (Started(p) /\ startDisk[p][path].exists)
            => \/ disk[path] = startDisk[p][path]
               \/ disk[BackupPath(path)] = File(startDisk[p][path].data)

\* A crash between the copy and the write: the file unmodified, the backup
\* complete.
C9_Witness ==
    /\ pc[1] = "crashed"
    /\ wb[1] > 0
    /\ WbFlow[wb[1]] = "truncate"
    /\ disk[PathDD] = startDisk[1][PathDD]
    /\ disk[BackupPath(PathDD)] = File(startDisk[1][PathDD].data)
    /\ ~startDisk[1][BackupPath(PathDD)].exists

\* C10 as amended (no partial write): both files are validated and
\* transformed before any is written; a run that aborts on a sentinel or on a
\* rule, of the second file in particular, has status 1 and has written
\* nothing and created no backup, so there is nothing to roll back; and the
\* tree changes only once both files were transformed.
C10_NoPartialWrite ==
    \A p \in Procs :
        /\ (Started(p) /\ error[p].what \in {"sentinel", "PATCH 1 failed", "PATCH 2 failed"})
            => /\ disk = startDisk[p]
               /\ exitCode[p] = 1
        /\ (Started(p) /\ disk # startDisk[p] /\ \A q \in Procs : q > p => ~Started(q))
            => \A k \in {DD, DDP} : patched[p][k] # << >>

\* C10 as stated: when validation of the second file fails in a run whose
\* first file is pristine, the first file stands rewritten beside its backup.
C10_Original ==
    \A p \in Procs :
        (Exited(p) /\ error[p] = [what |-> "sentinel", key |-> DDP]
            /\ startDisk[p][PathDD] = File(PristineDD))
        => /\ exitCode[p] = 1
           /\ disk[PathDD] = File(Patched(DD))
           /\ disk[BackupPath(PathDD)] = File(PristineDD)

\* Validation of the second file failed beside a pristine first file, which
\* is as it was and has no backup.
C10_Witness ==
    /\ pc[1] = "died"
    /\ exitCode[1] = 1
    /\ error[1] = [what |-> "sentinel", key |-> DDP]
    /\ startDisk[1][PathDD] = File(PristineDD)
    /\ disk[PathDD] = File(PristineDD)
    /\ ~disk[BackupPath(PathDD)].exists

\* C11 as amended (backup creation count): a run that ends with status 0
\* creates exactly one backup for each target file that it changes and none
\* for a file that already carries the marker; no run creates a backup
\* twice; and a created backup holds, when the run exits, what the file held
\* when the run started.
C11_BackupCount ==
    \A p \in Procs : \A k \in {DD, DDP} :
        LET path == REQUIRED_FILES[k]
            bak  == BackupPath(path)
        IN  /\ created[p][bak] <= 1
            /\ (pc[p] = "done" /\ \A q \in Procs : q > p => ~Started(q))
                => /\ exitCode[p] = 0
                   /\ created[p][bak] = IF HasTag(startDisk[p][path].data) THEN 0 ELSE 1
                   /\ created[p][bak] = 1
                        => /\ ~startDisk[p][bak].exists
                           /\ disk[bak] = File(startDisk[p][path].data)
                           /\ disk[path] # startDisk[p][path]
                   /\ created[p][bak] = 0
                        => /\ disk[bak] = startDisk[p][bak]
                           /\ disk[path] = startDisk[p][path]

\* C11 as stated: every run that ends with status 0 has created one backup
\* for each of the two target files, and each stands unchanged at exit.
C11_Original ==
    \A p \in Procs :
        (pc[p] = "done" /\ exitCode[p] = 0)
        => \A k \in {DD, DDP} :
              /\ created[p][BackupPath(REQUIRED_FILES[k])] = 1
              /\ disk[BackupPath(REQUIRED_FILES[k])].exists

\* A run has ended with status 0 having created the backup of the pristine
\* first file and none for the second, which was patched already.
C11_Witness ==
    /\ pc[1] = "done"
    /\ exitCode[1] = 0
    /\ startDisk[1][PathDD] = File(PristineDD)
    /\ startDisk[1][PathDDP] = File(Patched(DDP))
    /\ created[1] = [path \in BackupPaths |-> IF path = BackupPath(PathDD) THEN 1 ELSE 0]
    /\ disk[BackupPath(PathDD)] = File(PristineDD)
    /\ ~disk[BackupPath(PathDDP)].exists

\* Some run stands in the copy of line 141 towards the backup of this path,
\* running or crashed there: the backup is created and not yet filled.
Copying(path) ==
    \E p \in Procs :
        /\ pc[p] \in {"wb", "crashed"}
        /\ wb[p] > 0
        /\ WbFlow[wb[p]] = "copy_data"
        /\ PathOf(p) = path

\* The runs that have created the backup of this path.
Creators(path) == {p \in Procs : created[p][BackupPath(path)] > 0}

\* C12 (race on the backup-existence checks): when runs go on at the same
\* time on the pristine tree, a backup that differs from the pristine file
\* once its copy is over has been created by two runs at least, each of which
\* found no backup in main and none in write_with_backup; it then holds the
\* patched content or nothing.  One run alone leaves the pristine content.
C12_RaceOnBackup ==
    \A k \in {DD, DDP} :
        LET path == REQUIRED_FILES[k]
            bak  == BackupPath(path)
        IN  /\ \A p \in Creators(path) :
                  /\ existing[p] = {}
                  /\ ~startDisk[p][bak].exists
                  /\ created[p][bak] = 1
            /\ (disk[bak].exists /\ ~Copying(path) /\ disk[bak].data # Pristine(k))
                => /\ Cardinality(Creators(path)) >= 2
                   /\ disk[bak].data \in {Patched(k), << >>}

\* Both runs passed both checks and ended with status 0; the second copied
\* the file that the first had patched: the backup holds the patched content.
C12_Witness ==
    /\ pc[1] = "done"
    /\ pc[2] = "done"
    /\ exitCode[1] = 0
    /\ exitCode[2] = 0
    /\ startDisk[1] = PristineTree
    /\ startDisk[2] = PristineTree
    /\ Creators(PathDD) = {1, 2}
    /\ disk[PathDD] = File(Patched(DD))
    /\ disk[BackupPath(PathDD)] = File(Patched(DD))

\* The pristine content with one rule of the file applied to it.
OneRule(key, i) == Subn(Rules(key)[i], Pristine(key)).text

\* The pristine content with rule 1 and then rule 2 applied to it.
BothRules(key) == Subn(Rules(key)[2], OneRule(key, 1)).text

\* Every run so far ran to its end.
CompleteRuns == \A p \in Procs : pc[p] \in {"idle", "done", "died"}

\* C13 (no partially patched file on disk): from pristine target files,
\* after any sequence of complete runs, with the backups moved away between
\* runs or not, each target file holds its pristine content or the content
\* with both rules applied, never the content with one rule applied; and a
\* target file that holds the marker holds the content with both rules applied.
C13_NoHalfPatched ==
    CompleteRuns
    => \A k \in {DD, DDP} :
          LET f == disk[REQUIRED_FILES[k]]
          IN  /\ f.exists
              /\ f.data \in {Pristine(k), BothRules(k)}
              /\ f.data \notin {OneRule(k, 1), OneRule(k, 2)}
              /\ HasTag(f.data) => f.data = BothRules(k)

\* The first run patched both files, the backups were moved away, and the
\* second run found the marker in both, skipped them and ended with status 0.
C13_Witness ==
    /\ pc[1] = "done"
    /\ pc[2] = "done"
    /\ startDisk[1] = PristineTree
    /\ NoBackups(startDisk[2])
    /\ NoBackups(disk)
    /\ \A k \in {DD, DDP} :
          /\ HasTag(disk[REQUIRED_FILES[k]].data)
          /\ disk[REQUIRED_FILES[k]] = File(BothRules(k))
          /\ HasTag(OneRule(k, 1)) /\ OneRule(k, 1) # BothRules(k)

====
